---- MODULE Spec2Model ----
(***************************************************************************)
(* Model of the versioning / caching layer of katha-base:                  *)
(*   scripts/versioning.py  (fingerprints, version folders, manifests)     *)
(*   scripts/gen_book.py    (prompt building, version resolver, run)       *)
(*   scripts/merge_app.py   (manifest writers of the merge tool)           *)
(* Python strings are sequences of code points, so that formatting,        *)
(* sorting and joining are modelled by what they do.                       *)
(***************************************************************************)
EXTENDS Integers, Sequences, FiniteSets, TLC

VARIABLES
    \* ---- file system under out/versions ----
    dirs,        \* names of the directories present under VERSIONS_DIR
    manifests,   \* directory name -> parsed manifest.yaml (domain: dirs that hold one)
    unreadable,  \* directories whose manifest.yaml is there but cannot be parsed
    pdfs,        \* <<directory name, file name>> of the PDF files written
    \* ---- one gen_book command (main) ----
    pc,          \* position of the command
    prompts,     \* result of _build_all_prompts: page stem -> record
    message,     \* --message argument
    style_id,    \* --style argument
    version,     \* version returned by _check_version_needed
    generated,   \* generated_images: the page stems whose generation succeeded
    todo,        \* pages of generated_images not yet written to the manifest
    runs,        \* number of commands started
    \* ---- threads of one process calling the manifest writers ----
    lock,        \* holder of _manifest_lock (0: free)
    tpc,         \* thread -> position inside its call
    targs,       \* thread -> arguments of its call
    tlocal,      \* thread -> its local variable `manifest`
    \* ---- calls of create_new_version ----
    ret,         \* sequence of the numbers returned so far
    \* ---- two fingerprint requests ----
    req1, req2,  \* (prompt, seed, ref_images)
    out1, out2,  \* compute_prompt_hash(prompt, seed, ref_images)
    fp1, fp2,    \* prompt_hash computed by _build_all_prompts
    \* ---- shared image pool and one _generate_images_parallel call ----
    pool,        \* out/images: image file name -> bytes of the file
    ptxt,        \* out/images: prompt file name -> text of the file
    gpc,         \* position of _generate_images_parallel
    gworkers,    \* its `workers` argument
    gsem,        \* value of the asyncio.Semaphore
    gprompts,    \* its `prompts` argument: page stem -> prompt_hash
    gtask,       \* page stem -> position of the page's generate_one task
    gbytes,      \* page stem -> image bytes the external generator returned
    gresult,     \* the returned generated_images: page stem -> file name
    gruns        \* number of calls started

vars == <<dirs, manifests, unreadable, pdfs, pc, prompts, message, style_id, version, generated,
          todo, runs, lock, tpc, targs, tlocal, ret, req1, req2, out1, out2, fp1, fp2,
          pool, ptxt, gpc, gworkers, gsem, gprompts, gtask, gbytes, gresult, gruns>>

fsVars   == <<dirs, manifests, unreadable>>
runVars  == <<pc, prompts, message, style_id, version, generated, todo, runs>>
thrVars  == <<lock, tpc, targs, tlocal>>
hashVars == <<req1, req2, out1, out2, fp1, fp2>>
genVars  == <<pool, ptxt, gpc, gworkers, gsem, gprompts, gtask, gbytes, gresult, gruns>>

-----------------------------------------------------------------------------
(* Bounds *)
MaxRefs    == 2    \* longest reference-image list
MaxThreads == 3    \* most concurrent callers of update_manifest_image
MaxCalls   == 4    \* most create_new_version calls in one behaviour
MaxRuns    == 2    \* most gen_book commands in one behaviour
MaxWorkers == 2    \* largest --workers value
MaxGenRuns == 2    \* most _generate_images_parallel calls in one behaviour
MaxSaves   == 3    \* most _save_prompts calls in one behaviour

-----------------------------------------------------------------------------
(* Python strings as sequences of code points *)
chComma == 44      \* ','
chMinus == 45      \* '-'
chZero  == 48      \* '0'
chEq    == 61      \* '='
chBar   == 124     \* '|'

\* Python's None for an optional argument: <<>>; a present value v: <<v>>
None    == <<>>
Some(v) == <<v>>

\* str(n) for n >= 0
RECURSIVE NatStr(_)
NatStr(n) == IF n < 10 THEN <<chZero + n>>
             ELSE NatStr(n \div 10) \o <<chZero + (n % 10)>>

\* str(n) / f"{n}" for an int
IntStr(n) == IF n < 0 THEN <<chMinus>> \o NatStr(0 - n) ELSE NatStr(n)

\* a < b for Python str (lexicographic by code point)
RECURSIVE StrLess(_, _)
StrLess(a, b) ==
    IF b = <<>> THEN FALSE
    ELSE IF a = <<>> THEN TRUE
    ELSE IF Head(a) # Head(b) THEN Head(a) < Head(b)
    ELSE StrLess(Tail(a), Tail(b))

\* insert s into an ascending list (after the elements equal to it: stable)
RECURSIVE Insert(_, _)
Insert(s, l) ==
    IF l = <<>> THEN <<s>>
    ELSE IF StrLess(s, Head(l)) THEN <<s>> \o l
    ELSE <<Head(l)>> \o Insert(s, Tail(l))

\* sorted(l) for a list of str
SortedMut(l) == l

RECURSIVE sorted(_)
sorted(l) == IF l = <<>> THEN <<>>
             ELSE Insert(l[Len(l)], sorted(SubSeq(l, 1, Len(l) - 1)))

\* ','.join(l)
RECURSIVE join(_)
join(l) == IF l = <<>> THEN <<>>
           ELSE IF Len(l) = 1 THEN l[1]
           ELSE l[1] \o <<chComma>> \o join(Tail(l))

\* hashlib.sha256(content.encode()).hexdigest()[:5], kept symbolic: the digest
\* of a content is named by the content, i.e. taken to be collision free
sha256hex5(content) == [sha256 |-> content]

\* "|seed="  and  "|refs="
sSeed == <<chBar, 115, 101, 101, 100, chEq>>
sRefs == <<chBar, 114, 101, 102, 115, chEq>>

\* the canonical content hashed by compute_prompt_hash
Content(prompt, seed, ref_images) ==
    LET c1 == IF seed # None THEN prompt \o sSeed \o IntStr(seed[1]) ELSE prompt
        c2 == IF ref_images # None /\ ref_images[1] # <<>>
              THEN c1 \o sRefs \o join(sorted(ref_images[1]))
              ELSE c1
    IN  c2

compute_prompt_hash(prompt, seed, ref_images) ==
    sha256hex5(Content(prompt, seed, ref_images))

\* prompt_hash as _build_all_prompts computes it for a page whose build_prompt
\* result is (prompt, ref_images, ref_labels)
BuildPromptHash(prompt, ref_images, seed) ==
    compute_prompt_hash(prompt, seed, None)

-----------------------------------------------------------------------------
(* Values the variables take while a specification leaves them alone *)
NoManifests == [d \in {} |-> 0]
FsIdle   == dirs = {} /\ manifests = NoManifests /\ unreadable = {} /\ pdfs = {}
RunIdle  == /\ pc = "idle" /\ prompts = <<>> /\ message = "<None>"
            /\ style_id = "genealogy_witch"
            /\ version = 0 /\ generated = {} /\ todo = <<>> /\ runs = 0
ThrIdle  == /\ lock = 0 /\ tpc = <<>> /\ targs = <<>> /\ tlocal = <<>>
RetIdle  == ret = <<>>
HashIdle == /\ req1 = None /\ req2 = None /\ out1 = None /\ out2 = None
            /\ fp1 = None /\ fp2 = None
GenIdle  == /\ pool = NoManifests /\ ptxt = NoManifests /\ gpc = "idle" /\ gworkers = 0 /\ gsem = 0
            /\ gprompts = NoManifests /\ gtask = NoManifests /\ gbytes = NoManifests
            /\ gresult = NoManifests /\ gruns = 0

-----------------------------------------------------------------------------
(* Fingerprints of two requests: compute_prompt_hash and _build_all_prompts *)

\* lists of length <= n over S
RECURSIVE ListsUpTo(_, _)
ListsUpTo(S, n) ==
    IF n = 0 THEN {<<>>}
    ELSE LET L == ListsUpTo(S, n - 1)
         IN  L \cup {Append(l, x) : l \in {m \in L : Len(m) = n - 1}, x \in S}

sX       == <<120>>                              \* "x"
HPrompts == {sX, sX \o sSeed \o IntStr(1)}       \* "x", "x|seed=1"
HSeeds   == {None, Some(1), Some(0 - 1)}
RefPaths == {<<97>>, <<98>>, <<97, chComma, 98>>}       \* "a", "b", "a,b"
HRefs    == {None} \cup {Some(l) : l \in ListsUpTo(RefPaths, MaxRefs)}
Requests == [prompt : HPrompts, seed : HSeeds, ref_images : HRefs]

InitHash ==
    /\ req1 \in {Some(r) : r \in Requests}
    /\ req2 \in {Some(r) : r \in Requests}
    /\ out1 = None /\ out2 = None /\ fp1 = None /\ fp2 = None
    /\ FsIdle /\ RunIdle /\ ThrIdle /\ RetIdle /\ GenIdle

\* versioning.compute_prompt_hash applied to both requests
ComputeHash ==
    /\ out1 = None
    /\ out1' = Some(compute_prompt_hash(req1[1].prompt, req1[1].seed, req1[1].ref_images))
    /\ out2' = Some(compute_prompt_hash(req2[1].prompt, req2[1].seed, req2[1].ref_images))
    /\ UNCHANGED <<req1, req2, fp1, fp2, fsVars, pdfs, runVars, thrVars, ret, genVars>>

\* gen_book._build_all_prompts applied to both requests (build_prompt has
\* returned the request's prompt and ref_images)
BuildPrompts ==
    /\ fp1 = None
    /\ fp1' = Some(BuildPromptHash(req1[1].prompt, req1[1].ref_images, req1[1].seed))
    /\ fp2' = Some(BuildPromptHash(req2[1].prompt, req2[1].ref_images, req2[1].seed))
    /\ UNCHANGED <<req1, req2, out1, out2, fsVars, pdfs, runVars, thrVars, ret, genVars>>

NextHash == ComputeHash \/ BuildPrompts
SpecHash == InitHash /\ [][NextHash]_vars

\* the reference images of a request as a set of path strings
RefSet(r) == IF r = None THEN {} ELSE {r[1][i] : i \in 1..Len(r[1])}

Count(l, x) == Cardinality({i \in 1..Len(l) : l[i] = x})
IsPermutation(a, b) ==
    IF a = None \/ b = None THEN a = b
    ELSE /\ Len(a[1]) = Len(b[1])
         /\ \A x \in RefSet(a) \cup RefSet(b) : Count(a[1], x) = Count(b[1], x)

SamePrompt == req1[1].prompt = req2[1].prompt
SameSeed   == req1[1].seed = req2[1].seed
SameRefSet == RefSet(req1[1].ref_images) = RefSet(req2[1].ref_images)

\* C8: requests for a page with equal prompt text and seed but different
\* reference-image sets get different gen_book fingerprints.
C8_RefsInFingerprint ==
    (fp1 # None /\ fp2 # None /\ SamePrompt /\ SameSeed /\ ~SameRefSet)
        => fp1 # fp2

\* C9: changing exactly one of prompt text, seed and reference-image set
\* changes the content hashed by compute_prompt_hash, hence its result.
ChangedExactlyOne ==
    \/ ~SamePrompt /\ SameSeed /\ SameRefSet
    \/ SamePrompt /\ ~SameSeed /\ SameRefSet
    \/ SamePrompt /\ SameSeed /\ ~SameRefSet
C9_Sensitive ==
    (out1 # None /\ out2 # None /\ ChangedExactlyOne) => out1 # out2

\* C10: compute_prompt_hash returns the same value for the same arguments
\* and for every reordering of the reference list.
C10_OrderInsensitive ==
    (out1 # None /\ out2 # None /\ SamePrompt /\ SameSeed
        /\ IsPermutation(req1[1].ref_images, req2[1].ref_images))
        => out1 = out2
C10_Witness ==
    /\ out1 # None /\ out2 # None /\ SamePrompt /\ SameSeed
    /\ req1[1].ref_images # req2[1].ref_images
    /\ IsPermutation(req1[1].ref_images, req2[1].ref_images)
    /\ out1 = out2

-----------------------------------------------------------------------------
(* Version folders and manifests (scripts/versioning.py) *)

\* str.isdigit() on an ASCII name
isdigit(name) == name # <<>> /\ \A i \in 1..Len(name) : name[i] \in chZero..(chZero + 9)

\* int(name) for a name of digits
RECURSIVE int(_)
int(name) == IF name = <<>> THEN 0
             ELSE 10 * int(SubSeq(name, 1, Len(name) - 1)) + (name[Len(name)] - chZero)

SetMax(S) == CHOOSE m \in S : \A x \in S : x <= m

\* the test of get_latest_version on a directory entry
IsVersionDir(name) == isdigit(name) /\ Len(name) = 2

get_latest_version ==
    SetMax({0} \cup {int(d) : d \in {n \in dirs : IsVersionDir(n)}})

\* f'{version:02d}', the folder name of get_version_path
get_version_path(v) == IF v >= 0 /\ v < 10 THEN <<chZero>> \o IntStr(v) ELSE IntStr(v)

\* the version numbers that have a folder
ExistingVersions == {int(d) : d \in {n \in dirs : isdigit(n)}}

\* read_manifest: open() and yaml.safe_load() raise on a file that is there
\* but cannot be parsed
read_manifest_raises(v) == get_version_path(v) \in unreadable

\* read_manifest: None when the file does not exist
read_manifest(v) ==
    IF get_version_path(v) \in DOMAIN manifests
    THEN Some(manifests[get_version_path(v)]) ELSE None

\* write_manifest: mkdir(parents, exist_ok) and a full overwrite of the file
write_manifest(v, data) ==
    /\ dirs' = dirs \cup {get_version_path(v)}
    /\ manifests' = [d \in DOMAIN manifests \cup {get_version_path(v)} |->
                        IF d = get_version_path(v) THEN data ELSE manifests[d]]
    /\ unreadable' = unreadable \ {get_version_path(v)}

\* what `git rev-parse --short=7 HEAD` can do: print a revision, exit with a
\* non-zero status (CalledProcessError), or not be found (FileNotFoundError)
GitOutcomes == {"ok", "nonzero", "missing"}

\* get_git_commit: the returned string, None when the exception propagates
get_git_commit(g) ==
    IF g = "ok" THEN Some("abc1234")
    ELSE IF g = "nonzero" THEN Some("unknown")
    ELSE None

NoImages == [p \in {} |-> 0]

\* the initial manifest of create_new_version
NewManifest(new_version, commit, msg, style) ==
    [version |-> new_version, created |-> "now", commit |-> commit,
     message |-> msg, style |-> style, images |-> NoImages, books |-> <<>>]

\* the number create_new_version returns, None when get_git_commit raises
create_new_version_result(g) ==
    IF get_git_commit(g) = None THEN None ELSE Some(get_latest_version + 1)

\* the effect of create_new_version on the file system
create_new_version(msg, style, g) ==
    IF get_git_commit(g) = None
    THEN UNCHANGED fsVars
    ELSE write_manifest(get_latest_version + 1,
                        NewManifest(get_latest_version + 1, get_git_commit(g)[1], msg, style))

Messages == {"Initial version", "fix p1"}
Styles   == {"genealogy_witch"}

-----------------------------------------------------------------------------
(* A sequence of create_new_version calls *)

StartLatest == {0, 97}

InitVersions ==
    /\ \E n \in StartLatest :
        /\ dirs = {get_version_path(v) : v \in 1..n}
        /\ manifests = [d \in {get_version_path(v) : v \in 1..n} |->
                            [version |-> int(d), created |-> "now", commit |-> "abc1234",
                             message |-> "Initial version", style |-> "genealogy_witch",
                             images |-> NoImages, books |-> <<>>]]
    /\ unreadable = {}
    /\ pdfs = {}
    /\ ret = <<>>
    /\ RunIdle /\ ThrIdle /\ HashIdle /\ GenIdle

CreateNewVersion ==
    /\ Len(ret) < MaxCalls
    /\ \E msg \in Messages, style \in Styles, g \in GitOutcomes :
        /\ create_new_version(msg, style, g)
        /\ ret' = Append(ret, create_new_version_result(g))
    /\ UNCHANGED <<pdfs, runVars, thrVars, hashVars, genVars>>

NextVersions == CreateNewVersion
SpecVersions == InitVersions /\ [][NextVersions]_vars

\* C2: every create_new_version call returns a number greater than every
\* version number that already has a folder, and overwrites no manifest.
C2_NeverReused ==
    [][(Len(ret') = Len(ret) + 1 /\ ret'[Len(ret')] # None)
        => /\ \A v \in ExistingVersions : ret'[Len(ret')][1] > v
           /\ \A d \in DOMAIN manifests : manifests'[d] = manifests[d]]_vars

-----------------------------------------------------------------------------
(* The gen_book command: main, _check_version_needed, generate_book *)

\* page stems, in the order of sorted(STORY_DIR.glob('p*.yaml'))
PageOrder == <<"p01-arthur", "p02-cullan">>
Pages     == {PageOrder[i] : i \in 1..Len(PageOrder)}

\* --message: absent (None), empty, or a text
NoMessage   == "<None>"
CliMessages == {NoMessage, "", "fix p1"}
\* `not message`
NotMessage(msg) == msg = NoMessage \/ msg = ""

\* what build_prompt returns for a page: (prompt, ref_images)
sY == <<121>>                                    \* "y"
BuildPromptResults ==
    {[prompt |-> sX, ref_images |-> <<<<97>>>>],
     [prompt |-> sY, ref_images |-> <<<<97>>>>]}
\* --seed of the runs (compute_prompt_hash is exercised over seeds in SpecHash)
RunSeeds == {None}

\* get_image_path(page_stem, prompt_hash).name
get_image_name(page_stem, prompt_hash) ==
    [stem |-> page_stem, hash |-> prompt_hash, ext |-> "jpg"]

\* _build_all_prompts: page stem -> (prompt, ref_images, prompt_hash)
build_all_prompts(built, seed) ==
    [p \in DOMAIN built |->
        [prompt |-> built[p].prompt, ref_images |-> built[p].ref_images,
         prompt_hash |-> BuildPromptHash(built[p].prompt, Some(built[p].ref_images), seed)]]

\* _get_hashes_from_prompts
get_hashes_from_prompts(pr) == [p \in DOMAIN pr |-> pr[p].prompt_hash]

\* stored_hashes of _check_version_needed
stored_hashes(manifest) ==
    [k \in DOMAIN manifest.images |-> manifest.images[k].prompt_hash]

\* prompts_changed after the loop of _check_version_needed
PromptsChangedWholeEntry(current_hashes, manifest) ==
    \E p \in DOMAIN current_hashes :
        \/ p \notin DOMAIN manifest.images
        \/ manifest.images[p] # current_hashes[p]
PromptsChangedSkipAbsent(current_hashes, manifest) ==
    \E p \in DOMAIN current_hashes :
        /\ p \in DOMAIN stored_hashes(manifest)
        /\ stored_hashes(manifest)[p] # current_hashes[p]
PromptsChanged(current_hashes, manifest) ==
    \E p \in DOMAIN current_hashes :
        \/ p \notin DOMAIN stored_hashes(manifest)
        \/ stored_hashes(manifest)[p] # current_hashes[p]

\* the branch _check_version_needed takes:
\*   "exit"   sys.exit(1)
\*   "create" return create_new_version(message, style_id)
\*   "reuse"  return latest_version
check_version_branch(current_hashes, msg) ==
    IF get_latest_version = 0
    THEN IF NotMessage(msg) THEN "exit" ELSE "create"
    ELSE IF read_manifest_raises(get_latest_version)
    THEN "raise"
    ELSE IF read_manifest(get_latest_version) = None
    THEN IF NotMessage(msg) THEN "exit" ELSE "create"
    ELSE IF PromptsChanged(current_hashes, read_manifest(get_latest_version)[1])
    THEN IF NotMessage(msg) THEN "exit" ELSE "create"
    ELSE "reuse"

UpsertImageDropOthers(manifest, page_stem, filename, prompt_hash) ==
    [manifest EXCEPT !.images =
        [p \in {page_stem} |-> [file |-> filename, prompt_hash |-> prompt_hash]]]
\* the manifest after update_manifest_image's assignment
UpsertImage(manifest, page_stem, filename, prompt_hash) ==
    [manifest EXCEPT !.images =
        [p \in DOMAIN manifest.images \cup {page_stem} |->
            IF p = page_stem THEN [file |-> filename, prompt_hash |-> prompt_hash]
            ELSE manifest.images[p]]]

AppendBookAlways(manifest, book_filename) ==
    [manifest EXCEPT !.books = Append(manifest.books, book_filename)]
\* the manifest after update_manifest_book's conditional append
AppendBook(manifest, book_filename) ==
    IF \E i \in 1..Len(manifest.books) : manifest.books[i] = book_filename
    THEN manifest
    ELSE [manifest EXCEPT !.books = Append(manifest.books, book_filename)]

\* the sub-sequence of PageOrder with the pages of S
RECURSIVE InOrder(_, _)
InOrder(order, S) ==
    IF order = <<>> THEN <<>>
    ELSE IF Head(order) \in S THEN <<Head(order)>> \o InOrder(Tail(order), S)
    ELSE InOrder(Tail(order), S)

Terminal == {"idle", "done", "exit", "raised", "killed"}

Init ==
    /\ dirs = {} /\ manifests = NoManifests /\ unreadable = {} /\ pdfs = {}
    /\ RunIdle /\ ThrIdle /\ RetIdle /\ HashIdle /\ GenIdle

\* --style: any name of lowercase letters and underscores passes main's test
CliStyles == Styles \cup {"no_such_style"}

load_styleAny(style) == Some(style)
\* gen_image._load_style: ValueError (None) for a name not in story/styles.yaml
load_style(style) == IF style \in Styles THEN Some(style) ELSE None

\* main: the pages are found and the prompts built in memory; build_prompt
\* loads the style for the first page and raises when it is unknown
Main ==
    /\ pc \in Terminal
    /\ runs < MaxRuns
    /\ \E P \in (SUBSET Pages) \ {{}}, seed \in RunSeeds, msg \in CliMessages,
          st \in CliStyles :
        \E built \in [P -> BuildPromptResults] :
            /\ message' = msg
            /\ style_id' = st
            /\ IF load_style(st) = None
               THEN prompts' = <<>> /\ pc' = "raised"
               ELSE prompts' = build_all_prompts(built, seed) /\ pc' = "check"
    /\ runs' = runs + 1
    /\ version' = 0 /\ generated' = {} /\ todo' = <<>>
    /\ UNCHANGED <<fsVars, pdfs, thrVars, ret, hashVars, genVars>>

\* _check_version_needed(current_hashes, style_id, message)
CheckVersionNeeded ==
    /\ pc = "check"
    /\ LET branch == check_version_branch(get_hashes_from_prompts(prompts), message)
       IN  \/ /\ branch = "exit"
              /\ pc' = "exit"
              /\ UNCHANGED <<fsVars, version>>
           \/ /\ branch = "raise"
              /\ pc' = "raised"
              /\ UNCHANGED <<fsVars, version>>
           \/ /\ branch = "reuse"
              /\ pc' = "generate"
              /\ version' = get_latest_version
              /\ UNCHANGED fsVars
           \/ /\ branch = "create"
              /\ \E g \in GitOutcomes :
                    /\ create_new_version(message, style_id, g)
                    /\ IF create_new_version_result(g) = None
                       THEN pc' = "raised" /\ UNCHANGED version
                       ELSE pc' = "generate"
                            /\ version' = create_new_version_result(g)[1]
    /\ UNCHANGED <<prompts, message, style_id, generated, todo, runs, pdfs, thrVars, ret, hashVars, genVars>>

\* the write of create_new_version stops inside write_manifest (the process
\* is killed, or the write fails): the folder is there, with no manifest.yaml
\* or with one cut off in the middle of a quoted value
WriteManifestInterrupted ==
    /\ pc = "check"
    /\ check_version_branch(get_hashes_from_prompts(prompts), message) = "create"
    /\ dirs' = dirs \cup {get_version_path(get_latest_version + 1)}
    /\ \/ unreadable' = unreadable
       \/ unreadable' = unreadable \cup {get_version_path(get_latest_version + 1)}
    /\ pc' = "killed"
    /\ UNCHANGED <<manifests, prompts, message, style_id, version, generated, todo, runs, pdfs,
                   thrVars, ret, hashVars, genVars>>

generated_images_itemsOfPrompts(S) == InOrder(PageOrder, DOMAIN prompts)
\* generated_images.items(): the pages generate_book's loop records
generated_images_items(S) == InOrder(PageOrder, S)

\* generate_book up to the return of _generate_images_parallel:
\* generated_images holds the pages whose generation did not fail
GenerateImages ==
    /\ pc = "generate"
    /\ \E S \in SUBSET (DOMAIN prompts) :
        /\ generated' = S
        /\ todo' = generated_images_items(S)
    /\ pc' = "update"
    /\ UNCHANGED <<prompts, message, style_id, version, runs, fsVars, pdfs, thrVars, ret, hashVars, genVars>>

\* one iteration of the loop over generated_images: update_manifest_image
UpdateManifestImage ==
    /\ pc = "update"
    /\ todo # <<>>
    /\ IF read_manifest(version) = None
       THEN pc' = "raised" /\ UNCHANGED <<fsVars, todo>>
       ELSE /\ write_manifest(version,
                   UpsertImage(read_manifest(version)[1], Head(todo),
                               get_image_name(Head(todo), prompts[Head(todo)].prompt_hash),
                               prompts[Head(todo)].prompt_hash))
            /\ todo' = Tail(todo)
            /\ pc' = pc
    /\ UNCHANGED <<prompts, message, style_id, version, generated, runs, pdfs, thrVars, ret, hashVars, genVars>>

\* the single-character branch of generate_book: _create_pdf_from_images
\* (which writes nothing for an empty list) and update_manifest_book
CreatePdf ==
    /\ pc = "update"
    /\ todo = <<>>
    /\ pdfs' = IF generated = {} THEN pdfs
               ELSE pdfs \cup {<<get_version_path(version), "cullan-book.pdf">>}
    /\ IF read_manifest(version) = None
       THEN pc' = "raised" /\ UNCHANGED fsVars
       ELSE /\ write_manifest(version, AppendBook(read_manifest(version)[1], "cullan-book.pdf"))
            /\ pc' = "done"
    /\ UNCHANGED <<prompts, message, style_id, version, generated, todo, runs, thrVars, ret, hashVars, genVars>>

\* the process is interrupted inside generate_book
Interrupt ==
    /\ pc \in {"generate", "update"}
    /\ pc' = "killed"
    /\ UNCHANGED <<prompts, message, style_id, version, generated, todo, runs, fsVars, pdfs,
                   thrVars, ret, hashVars, genVars>>

Next == Main \/ CheckVersionNeeded \/ WriteManifestInterrupted \/ GenerateImages
        \/ UpdateManifestImage \/ CreatePdf \/ Interrupt
Spec == Init /\ [][Next]_vars

-----------------------------------------------------------------------------
(* Threads of one process calling update_manifest_image on version 1 *)

\* the page stem of each caller: pairwise distinct
UpsertPageOrder == <<"p01-arthur", "p02-cullan", "p03-emer", "p04-hansel">>
UpsertHashes    == {sha256hex5(sX), sha256hex5(sY)}

Min(a, b) == IF a < b THEN a ELSE b

\* `with _manifest_lock:` can be entered
LockFreeNoLock == TRUE
LockFree == lock = 0

InitUpsert ==
    /\ dirs = {get_version_path(1)}
    /\ \E old \in {NoImages,
                   [p \in {UpsertPageOrder[1]} |->
                       [file |-> get_image_name(p, sha256hex5(sX)),
                        prompt_hash |-> sha256hex5(sX)]]} :
         manifests = [d \in {get_version_path(1)} |->
                         [NewManifest(1, "abc1234", "Initial version", "genealogy_witch")
                             EXCEPT !.images = old]]
    /\ unreadable = {}
    /\ pdfs = {}
    /\ lock = 0
    /\ \E n \in 1..Min(MaxThreads, Len(UpsertPageOrder)) :
        /\ tpc = [t \in 1..n |-> "call"]
        /\ tlocal = [t \in 1..n |-> None]
        /\ \E h \in [1..n -> UpsertHashes] :
             targs = [t \in 1..n |->
                        [version |-> 1, page_stem |-> UpsertPageOrder[t],
                         filename |-> get_image_name(UpsertPageOrder[t], h[t]),
                         prompt_hash |-> h[t]]]
    /\ RunIdle /\ RetIdle /\ HashIdle /\ GenIdle

\* update_manifest_image: `with _manifest_lock:` entered
Acquire(t) ==
    /\ tpc[t] = "call"
    /\ LockFree
    /\ lock' = t
    /\ tpc' = [tpc EXCEPT ![t] = "locked"]
    /\ UNCHANGED <<targs, tlocal, fsVars, pdfs, runVars, ret, hashVars, genVars>>

ReadKeepLock(t) ==
    /\ tpc[t] = "locked"
    /\ tlocal' = [tlocal EXCEPT ![t] = read_manifest(targs[t].version)]
    /\ tpc' = [tpc EXCEPT ![t] =
                  IF read_manifest(targs[t].version) = None THEN "raised" ELSE "read"]
    /\ UNCHANGED <<lock, targs, fsVars, pdfs, runVars, ret, hashVars, genVars>>
\* manifest = read_manifest(version); ValueError (and the lock released) on None
Read(t) ==
    /\ tpc[t] = "locked"
    /\ tlocal' = [tlocal EXCEPT ![t] = read_manifest(targs[t].version)]
    /\ IF read_manifest(targs[t].version) = None
       THEN tpc' = [tpc EXCEPT ![t] = "raised"] /\ lock' = 0
       ELSE tpc' = [tpc EXCEPT ![t] = "read"] /\ UNCHANGED lock
    /\ UNCHANGED <<targs, fsVars, pdfs, runVars, ret, hashVars, genVars>>

\* manifest['images'][page_stem] = {...}; write_manifest(version, manifest)
Write(t) ==
    /\ tpc[t] = "read"
    /\ write_manifest(targs[t].version,
           UpsertImage(tlocal[t][1], targs[t].page_stem, targs[t].filename,
                       targs[t].prompt_hash))
    /\ tpc' = [tpc EXCEPT ![t] = "written"]
    /\ UNCHANGED <<lock, targs, tlocal, pdfs, runVars, ret, hashVars, genVars>>

\* the with-block is left and the call returns
Release(t) ==
    /\ tpc[t] = "written"
    /\ lock' = 0
    /\ tpc' = [tpc EXCEPT ![t] = "returned"]
    /\ UNCHANGED <<targs, tlocal, fsVars, pdfs, runVars, ret, hashVars, genVars>>

NextUpsert == \E t \in DOMAIN tpc : Acquire(t) \/ Read(t) \/ Write(t) \/ Release(t)
SpecUpsert == InitUpsert /\ [][NextUpsert]_vars

AllReturned == \A t \in DOMAIN tpc : tpc[t] = "returned"

\* C1: once all N concurrent update_manifest_image calls on distinct pages of
\* one version have returned, the manifest holds all N entries, each with the
\* file name and prompt hash of its caller.
C1_NoLostUpdate ==
    AllReturned =>
        \A t \in DOMAIN tpc :
            /\ targs[t].page_stem \in DOMAIN manifests[get_version_path(1)].images
            /\ manifests[get_version_path(1)].images[targs[t].page_stem]
                 = [file |-> targs[t].filename, prompt_hash |-> targs[t].prompt_hash]
C1_Witness ==
    /\ Len(tpc) >= 2
    /\ AllReturned
    /\ \A t \in DOMAIN tpc :
           targs[t].page_stem \in DOMAIN manifests[get_version_path(1)].images

-----------------------------------------------------------------------------
(* Properties of _check_version_needed, stated on its step *)

\* _check_version_needed is left (by return, sys.exit or an exception)
CheckReturns == pc = "check" /\ pc' \notin {"check", "killed"}

LatestPath     == get_version_path(get_latest_version)
LatestImages   == manifests[LatestPath].images
HasLatestManifest == get_latest_version > 0 /\ LatestPath \in DOMAIN manifests

\* every current page is stored with the hash just computed
AllMatch ==
    /\ HasLatestManifest
    /\ \A p \in DOMAIN prompts :
           /\ p \in DOMAIN LatestImages
           /\ LatestImages[p].prompt_hash = prompts[p].prompt_hash
\* some current page is stored with another hash
SomeDiffers ==
    /\ HasLatestManifest
    /\ \E p \in DOMAIN prompts :
           /\ p \in DOMAIN LatestImages
           /\ LatestImages[p].prompt_hash # prompts[p].prompt_hash
\* some current page has no entry
SomeAbsent ==
    /\ HasLatestManifest
    /\ \E p \in DOMAIN prompts : p \notin DOMAIN LatestImages
\* the manifest holds a strict subset of the current pages, each with the
\* hash just computed: what an incomplete run of this very request leaves
Partial ==
    /\ HasLatestManifest
    /\ DOMAIN LatestImages \subseteq DOMAIN prompts
    /\ DOMAIN LatestImages # DOMAIN prompts
    /\ \A p \in DOMAIN LatestImages :
           LatestImages[p].prompt_hash = prompts[p].prompt_hash

\* version latest+1 has been created with empty collections, nothing else touched
MintedNext ==
    /\ pc' = "generate"
    /\ version' = get_latest_version + 1
    /\ dirs' = dirs \cup {get_version_path(get_latest_version + 1)}
    /\ manifests'[get_version_path(get_latest_version + 1)].images = NoImages
    /\ manifests'[get_version_path(get_latest_version + 1)].books = <<>>
    /\ \A d \in DOMAIN manifests :
           d # get_version_path(get_latest_version + 1) => manifests'[d] = manifests[d]
\* the command stops with an error and the version folders are as before
RefusedUnchanged == pc' \in {"exit", "raised"} /\ UNCHANGED fsVars

\* C3: when every current page's stored hash equals the computed one, the
\* resolver returns the latest version, with or without a message, and
\* creates no folder and changes no manifest.
C3_ReuseWhenCurrent ==
    [][(CheckReturns /\ AllMatch)
        => (pc' = "generate" /\ version' = get_latest_version /\ UNCHANGED fsVars)]_vars
C3_Witness ==
    /\ pc = "generate" /\ AllMatch /\ version = get_latest_version
    /\ ~NotMessage(message)

\* C4: when a current page's computed hash differs from the stored one, the
\* resolver without a message stops with an error and creates nothing; with
\* a message it creates latest+1 with empty images and books and returns it.
C4_StaleNeedsMessage ==
    [][(CheckReturns /\ SomeDiffers)
        => IF NotMessage(message) THEN RefusedUnchanged ELSE MintedNext]_vars

\* C5: with no version folder, the resolver without a message exits with an
\* error and leaves no folder; with a message it creates exactly folder 01
\* and returns 1.
C5_FirstVersion ==
    [][(CheckReturns /\ dirs = {})
        => IF NotMessage(message)
           THEN pc' = "exit" /\ dirs' = {}
           ELSE pc' = "generate" /\ version' = 1 /\ dirs' = {get_version_path(1)}]_vars

\* C6: a current page without an entry in the latest manifest makes the
\* version stale: a message is required and, given one, latest+1 is created.
C6_AbsentIsStale ==
    [][(CheckReturns /\ SomeAbsent)
        => IF NotMessage(message) THEN RefusedUnchanged ELSE MintedNext]_vars

-----------------------------------------------------------------------------
(* The shared image pool and _generate_images_parallel *)

\* get_image_path: out/images/{page_stem}-{prompt_hash}.jpg
get_image_path(page_stem, prompt_hash) == get_image_name(page_stem, prompt_hash)

find_existing_image_never(page_stem, prompt_hash) == None
\* find_existing_image: the path when the file exists, None otherwise
find_existing_image(page_stem, prompt_hash) ==
    IF get_image_path(page_stem, prompt_hash) \in DOMAIN pool
    THEN Some(get_image_path(page_stem, prompt_hash))
    ELSE None

storeOverwrite(path, bytes) ==
    [p \in DOMAIN pool \cup {path} |-> IF p = path THEN bytes ELSE pool[p]]
\* store: writes the artifact under its canonical name if and only if the
\* file does not already exist; the pool after the call
store(path, bytes) ==
    IF path \in DOMAIN pool
    THEN pool
    ELSE [p \in DOMAIN pool \cup {path} |-> IF p = path THEN bytes ELSE pool[p]]

\* the pages of a book, in order; a call gets a prefix of them
GenPageOrder == <<"p01-arthur", "p02-cullan", "p03-arthur-cullan">>
\* the first page's prompt is one of two texts, the others are fixed
GenPrompts ==
    {build_all_prompts([i \in {GenPageOrder[j] : j \in 1..n} |->
                           IF i = GenPageOrder[1] THEN r
                           ELSE [prompt |-> sX, ref_images |-> <<<<97>>>>]], None) :
        n \in 0..Len(GenPageOrder), r \in BuildPromptResults}
\* --workers is type=int: any integer is accepted
Workers  == (0 - 1)..MaxWorkers
\* what the external generator can return for one request
GenBytes == {"img1", "img2"}

TaskPath(t) == get_image_path(t, gprompts[t].prompt_hash)
InFlight == {t \in DOMAIN gtask : gtask[t] = "inflight"}
Finished == {"done", "reused", "failed"}

InitGen ==
    /\ FsIdle /\ RunIdle /\ ThrIdle /\ RetIdle /\ HashIdle /\ GenIdle

\* _generate_images_parallel up to asyncio.gather: the semaphore is built
\* (ValueError for a negative value) and one task per page is created
GenStart ==
    /\ gpc \in {"idle", "returned", "raised"}
    /\ gruns < MaxGenRuns
    /\ gruns' = gruns + 1
    /\ \E w \in Workers, pr \in GenPrompts :
        /\ gworkers' = w
        /\ gprompts' = pr
        /\ gresult' = NoManifests
        /\ IF w < 0
           THEN /\ gpc' = "raised"
                /\ gsem' = 0
                /\ gtask' = NoManifests
                /\ gbytes' = NoManifests
           ELSE /\ gpc' = "running"
                /\ gsem' = w
                /\ gtask' = [t \in DOMAIN pr |-> "waiting"]
                /\ gbytes' = [t \in DOMAIN pr |-> None]
    /\ UNCHANGED <<fsVars, pdfs, runVars, thrVars, ret, hashVars, pool, ptxt>>

SemFreeAlways == TRUE
\* `async with semaphore` can be entered
SemFree == gsem > 0

\* generate_one enters the semaphore and generate_image_from_prompt_async
\* begins: it skips the external call when the image exists
TaskEnter(t) ==
    /\ gpc = "running"
    /\ gtask[t] = "waiting"
    /\ SemFree
    /\ gsem' = gsem - 1
    /\ gtask' = [gtask EXCEPT ![t] =
                    IF find_existing_image(t, gprompts[t].prompt_hash) # None
                    THEN "cached" ELSE "inflight"]
    /\ UNCHANGED <<fsVars, pdfs, runVars, thrVars, ret, hashVars, ptxt,
                   pool, gpc, gworkers, gprompts, gbytes, gresult, gruns>>

\* the image existed: the stored path is returned and the semaphore left
CachedReturns(t) ==
    /\ gpc = "running"
    /\ gtask[t] = "cached"
    /\ gtask' = [gtask EXCEPT ![t] = "reused"]
    /\ gsem' = gsem + 1
    /\ UNCHANGED <<fsVars, pdfs, runVars, thrVars, ret, hashVars, ptxt,
                   pool, gpc, gworkers, gprompts, gbytes, gresult, gruns>>

\* the external call returns image bytes: they are stored, the path is
\* returned and the semaphore left
CallReturns(t) ==
    /\ gpc = "running"
    /\ gtask[t] = "inflight"
    /\ \E b \in GenBytes :
        /\ pool' = store(TaskPath(t), b)
        /\ gbytes' = [gbytes EXCEPT ![t] = Some(b)]
    /\ gtask' = [gtask EXCEPT ![t] = "done"]
    /\ gsem' = gsem + 1
    /\ UNCHANGED <<fsVars, pdfs, runVars, thrVars, ret, hashVars, ptxt,
                   gpc, gworkers, gprompts, gresult, gruns>>

\* the external call raises: `async with` leaves the semaphore
CallRaises(t) ==
    /\ gpc = "running"
    /\ gtask[t] = "inflight"
    /\ gtask' = [gtask EXCEPT ![t] = "failed"]
    /\ gsem' = gsem + 1
    /\ UNCHANGED <<fsVars, pdfs, runVars, thrVars, ret, hashVars, ptxt,
                   pool, gpc, gworkers, gprompts, gbytes, gresult, gruns>>

GatherReadyOnFirstError ==
    \/ \A t \in DOMAIN gtask : gtask[t] \in Finished
    \/ \E t \in DOMAIN gtask : gtask[t] = "failed"
\* asyncio.gather(*tasks, return_exceptions=True) has its results
GatherReady == \A t \in DOMAIN gtask : gtask[t] \in Finished

\* gather returns; the results are split into generated_images and errors
Gather ==
    /\ gpc = "running"
    /\ GatherReady
    /\ gresult' = [t \in {u \in DOMAIN gtask : gtask[u] \in {"done", "reused"}} |->
                      TaskPath(t)]
    /\ gpc' = "returned"
    /\ UNCHANGED <<fsVars, pdfs, runVars, thrVars, ret, hashVars, ptxt,
                   pool, gworkers, gsem, gprompts, gtask, gbytes, gruns>>

\* a gen_book command in another process stores an image of one of the
\* keys of this call while the call runs
StoreByOtherRun ==
    /\ gpc = "running"
    /\ \E t \in DOMAIN gtask, b \in GenBytes :
        /\ pool' = store(TaskPath(t), b)
        /\ pool' # pool
    /\ UNCHANGED <<fsVars, pdfs, runVars, thrVars, ret, hashVars, ptxt,
                   gpc, gworkers, gsem, gprompts, gtask, gbytes, gresult, gruns>>

NextGen ==
    \/ GenStart
    \/ \E t \in DOMAIN gtask : TaskEnter(t)
    \/ \E t \in DOMAIN gtask : CachedReturns(t)
    \/ \E t \in DOMAIN gtask : CallReturns(t)
    \/ \E t \in DOMAIN gtask : CallRaises(t)
    \/ Gather
    \/ StoreByOtherRun
SpecGen == InitGen /\ [][NextGen]_vars

C17_BoundedInFlight ==
    gpc = "running" => Cardinality(InFlight) <= gworkers
\* every slot is taken, one task waits and one has failed
C17_Witness ==
    /\ gpc = "running" /\ gworkers > 0
    /\ Cardinality(InFlight) = gworkers
    /\ \E t \in DOMAIN gtask : gtask[t] = "waiting"
    /\ \E t \in DOMAIN gtask : gtask[t] = "failed"

\* C18: a failed call does not abort the sibling tasks: the function returns
\* only when every task has finished, and the returned map holds exactly the
\* pages whose call succeeded.
C18_FailuresCollected ==
    gpc = "returned" =>
        /\ \A t \in DOMAIN gtask : gtask[t] \in Finished
        /\ DOMAIN gresult = {t \in DOMAIN gtask : gtask[t] # "failed"}
\* one page failed before a sibling had even started, and the sibling succeeded
C18_Witness ==
    /\ gpc = "returned"
    /\ \E t \in DOMAIN gtask : gtask[t] = "failed"
    /\ \E t \in DOMAIN gtask : gtask[t] = "done"
    /\ gworkers = 1

-----------------------------------------------------------------------------
(* The manifest writers of the merge tool (merge_app.py) running in the
   threads of one process next to the locked writers of versioning.py *)

\* the initial manifest of create_merge_version
NewMergeManifest(new_version, commit, msg) ==
    [version |-> new_version, created |-> "now", commit |-> commit,
     message |-> msg, style |-> "merged", source_versions |-> <<>>,
     images |-> NoImages, books |-> <<>>]

\* the calls a thread can make on merge version 1
MergeCall(op, page_stem) ==
    [op |-> op, version |-> 1, page_stem |-> page_stem,
     filename |-> get_image_name(page_stem, sha256hex5(sX)),
     prompt_hash |-> sha256hex5(sX), source_version |-> 2,
     source_versions |-> <<2, 3>>, book_filename |-> "cullan-book.pdf"]
MergeCalls ==
    <<MergeCall("select_image", UpsertPageOrder[1]),
      MergeCall("select_image", UpsertPageOrder[2]),
      MergeCall("clear_image_selection", UpsertPageOrder[3]),
      MergeCall("update_source_versions", UpsertPageOrder[1]),
      MergeCall("update_manifest_image", UpsertPageOrder[4]),
      MergeCall("update_manifest_book", UpsertPageOrder[1])>>
MergeOps == {"select_image", "clear_image_selection", "update_source_versions"}
\* the writers of versioning.py, which take _manifest_lock
LockedOps == {"update_manifest_image", "update_manifest_book"}

\* the selection of page 3 that clear_image_selection removes
Selected(p) ==
    [q \in {p} |-> [file |-> get_image_name(p, sha256hex5(sY)),
                    prompt_hash |-> sha256hex5(sY), source_version |-> 3]]

InitMerge ==
    /\ dirs = {get_version_path(1)}
    /\ manifests = [d \in {get_version_path(1)} |->
                       [NewMergeManifest(1, "abc1234", "merge")
                           EXCEPT !.images = Selected(UpsertPageOrder[3])]]
    /\ unreadable = {}
    /\ pdfs = {}
    /\ lock = 0
    /\ \E S \in SUBSET (1..Len(MergeCalls)) :
        /\ Cardinality(S) \in 2..MaxThreads
        /\ \E n \in {Cardinality(S)} :
            /\ tpc = [t \in 1..n |-> "call"]
            /\ tlocal = [t \in 1..n |-> None]
            /\ \E f \in [1..n -> S] :
                /\ \A i \in 1..n, j \in 1..n : i < j => f[i] < f[j]
                /\ targs = [t \in 1..n |-> MergeCalls[f[t]]]
    /\ RunIdle /\ RetIdle /\ HashIdle /\ GenIdle

\* what the helper does to the manifest it has read
MergeModify(manifest, a) ==
    IF a.op = "select_image"
    THEN [manifest EXCEPT !.images =
            [p \in DOMAIN manifest.images \cup {a.page_stem} |->
                IF p = a.page_stem
                THEN [file |-> a.filename, prompt_hash |-> a.prompt_hash,
                      source_version |-> a.source_version]
                ELSE manifest.images[p]]]
    ELSE IF a.op = "clear_image_selection"
    THEN [manifest EXCEPT !.images =
            [p \in DOMAIN manifest.images \ {a.page_stem} |-> manifest.images[p]]]
    ELSE [manifest EXCEPT !.source_versions = a.source_versions]

\* `if manifest:` (and, for clear_image_selection, the page is selected)
MergeProceeds(m, a) ==
    /\ m # None
    /\ a.op = "clear_image_selection" => a.page_stem \in DOMAIN m[1].images

\* select_image, clear_image_selection, update_source_versions:
\* manifest = versioning.read_manifest(version), with no lock taken
MergeRead(t) ==
    /\ tpc[t] = "call"
    /\ targs[t].op \in MergeOps
    /\ tlocal' = [tlocal EXCEPT ![t] = read_manifest(targs[t].version)]
    /\ tpc' = [tpc EXCEPT ![t] =
                  IF MergeProceeds(read_manifest(targs[t].version), targs[t])
                  THEN "read" ELSE "returned"]
    /\ UNCHANGED <<lock, targs, fsVars, pdfs, runVars, ret, hashVars, genVars>>

\* the helper changes its copy and calls versioning.write_manifest
MergeWrite(t) ==
    /\ tpc[t] = "read"
    /\ targs[t].op \in MergeOps
    /\ write_manifest(targs[t].version, MergeModify(tlocal[t][1], targs[t]))
    /\ tpc' = [tpc EXCEPT ![t] = "returned"]
    /\ UNCHANGED <<lock, targs, tlocal, pdfs, runVars, ret, hashVars, genVars>>

\* update_manifest_book: the conditional append and write_manifest
BookWrite(t) ==
    /\ tpc[t] = "read"
    /\ write_manifest(targs[t].version,
                      AppendBook(tlocal[t][1], targs[t].book_filename))
    /\ tpc' = [tpc EXCEPT ![t] = "written"]
    /\ UNCHANGED <<lock, targs, tlocal, pdfs, runVars, ret, hashVars, genVars>>

NextMerge ==
    \/ \E t \in DOMAIN tpc : MergeRead(t)
    \/ \E t \in DOMAIN tpc : MergeWrite(t)
    \/ \E t \in DOMAIN tpc : targs[t].op \in LockedOps /\ Acquire(t)
    \/ \E t \in DOMAIN tpc : targs[t].op \in LockedOps /\ Read(t)
    \/ \E t \in DOMAIN tpc : targs[t].op \in LockedOps /\ Release(t)
    \/ \E t \in DOMAIN tpc : targs[t].op = "update_manifest_image" /\ Write(t)
    \/ \E t \in DOMAIN tpc : targs[t].op = "update_manifest_book" /\ BookWrite(t)
SpecMerge == InitMerge /\ [][NextMerge]_vars

\* the threads that have read a manifest and not yet written it back
InReadModifyWrite == {t \in DOMAIN tpc : tpc[t] = "read"}

\* C13: at most one read-modify-write sequence on a manifest is in progress
\* at any time, whichever of update_manifest_image, update_manifest_book,
\* select_image, clear_image_selection and update_source_versions the
\* threads call.
C13_Serialized == Cardinality(InReadModifyWrite) <= 1

-----------------------------------------------------------------------------
(* create_new_version and create_merge_version called from the threads of
   one process *)

MintMessages == <<"merge a", "merge b", "merge c", "merge d", "merge e">>
MintOps == {"create_new_version", "create_merge_version"}

InitMint ==
    /\ \E n \in {0, 1} :
        /\ dirs = {get_version_path(v) : v \in 1..n}
        /\ manifests = [d \in {get_version_path(v) : v \in 1..n} |->
                           NewManifest(int(d), "abc1234", "Initial version",
                                       "genealogy_witch")]
    /\ unreadable = {}
    /\ pdfs = {}
    /\ lock = 0
    /\ \E n \in 2..Min(MaxThreads, Len(MintMessages)) :
        /\ tpc = [t \in 1..n |-> "call"]
        /\ tlocal = [t \in 1..n |-> None]
        /\ \E o \in [1..n -> MintOps] :
             targs = [t \in 1..n |->
                        [op |-> o[t], message |-> MintMessages[t],
                         style |-> "genealogy_witch"]]
    /\ RunIdle /\ RetIdle /\ HashIdle /\ GenIdle

\* new_version = get_latest_version() + 1
MintLatest(t) ==
    /\ tpc[t] = "call"
    /\ tlocal' = [tlocal EXCEPT ![t] =
                    Some([new_version |-> get_latest_version + 1, commit |-> None])]
    /\ tpc' = [tpc EXCEPT ![t] = "numbered"]
    /\ UNCHANGED <<lock, targs, fsVars, pdfs, runVars, ret, hashVars, genVars>>

\* the manifest dict is built: get_git_commit() runs the git subprocess
MintCommit(t) ==
    /\ tpc[t] = "numbered"
    /\ \E g \in GitOutcomes :
        IF get_git_commit(g) = None
        THEN /\ tpc' = [tpc EXCEPT ![t] = "raised"]
             /\ UNCHANGED tlocal
        ELSE /\ tpc' = [tpc EXCEPT ![t] = "built"]
             /\ tlocal' = [tlocal EXCEPT ![t] =
                             Some([tlocal[t][1] EXCEPT !.commit = get_git_commit(g)])]
    /\ UNCHANGED <<lock, targs, fsVars, pdfs, runVars, ret, hashVars, genVars>>

\* the initial manifest the call of thread t has built
MintManifest(t) ==
    IF targs[t].op = "create_new_version"
    THEN NewManifest(tlocal[t][1].new_version, tlocal[t][1].commit[1],
                     targs[t].message, targs[t].style)
    ELSE NewMergeManifest(tlocal[t][1].new_version, tlocal[t][1].commit[1],
                          targs[t].message)

\* write_manifest(new_version, manifest); return new_version
MintWrite(t) ==
    /\ tpc[t] = "built"
    /\ write_manifest(tlocal[t][1].new_version, MintManifest(t))
    /\ tpc' = [tpc EXCEPT ![t] = "returned"]
    /\ UNCHANGED <<lock, targs, tlocal, pdfs, runVars, ret, hashVars, genVars>>

NextMint ==
    \/ \E t \in DOMAIN tpc : MintLatest(t)
    \/ \E t \in DOMAIN tpc : MintCommit(t)
    \/ \E t \in DOMAIN tpc : MintWrite(t)
SpecMint == InitMint /\ [][NextMint]_vars

Minted == {t \in DOMAIN tpc : tpc[t] = "returned"}

\* C14: two interleaved create_new_version / create_merge_version calls
\* return different version numbers, and the manifest of each returned
\* number is the one its call wrote.
C14_AtomicMint ==
    \A t \in Minted :
        /\ \A u \in Minted \ {t} :
              tlocal[u][1].new_version # tlocal[t][1].new_version
        /\ manifests[get_version_path(tlocal[t][1].new_version)] = MintManifest(t)

-----------------------------------------------------------------------------
\* C15: get_latest_version returns the highest number among the version
\* folders with a numeric name, and 0 when there is none.
C15_LatestIsMax == get_latest_version = SetMax({0} \cup ExistingVersions)

-----------------------------------------------------------------------------
\* the latest version folder has no manifest.yaml that can be read
LatestManifestMissing ==
    /\ get_latest_version > 0
    /\ LatestPath \in dirs
    /\ LatestPath \notin DOMAIN manifests

\* C16: when the latest version folder exists but its manifest is absent or
\* cannot be read, the resolver does what it does for a stale version:
\* without a message it stops with an error and creates nothing, with a
\* message it creates latest+1 and returns it.
C16_MissingManifestIsStale ==
    [][(CheckReturns /\ LatestManifestMissing)
        => IF NotMessage(message) THEN RefusedUnchanged ELSE MintedNext]_vars

-----------------------------------------------------------------------------
(* update_manifest_book called from the threads of one process *)

BookNames == {"arthur-book.pdf", "cullan-book.pdf", "emer-book.pdf"}

InitBooks ==
    /\ dirs = {get_version_path(1)}
    /\ \E old \in {<<>>, <<"cullan-book.pdf">>} :
         manifests = [d \in {get_version_path(1)} |->
                         [NewManifest(1, "abc1234", "Initial version", "genealogy_witch")
                             EXCEPT !.books = old]]
    /\ unreadable = {}
    /\ pdfs = {}
    /\ lock = 0
    /\ \E n \in 1..MaxThreads :
        /\ tpc = [t \in 1..n |-> "call"]
        /\ tlocal = [t \in 1..n |-> None]
        /\ \E b \in [1..n -> BookNames] :
             targs = [t \in 1..n |-> [version |-> 1, book_filename |-> b[t]]]
    /\ RunIdle /\ RetIdle /\ HashIdle /\ GenIdle

NextBooks ==
    \/ \E t \in DOMAIN tpc : Acquire(t)
    \/ \E t \in DOMAIN tpc : Read(t)
    \/ \E t \in DOMAIN tpc : BookWrite(t)
    \/ \E t \in DOMAIN tpc : Release(t)
SpecBooks == InitBooks /\ [][NextBooks]_vars

Books1 == manifests[get_version_path(1)].books
NoDuplicates(l) == \A i \in 1..Len(l), j \in 1..Len(l) : l[i] = l[j] => i = j
Contains(l, x) == \E i \in 1..Len(l) : l[i] = x

\* C19: the books list never holds a file name twice; a call with a name
\* already in the list leaves the list as it is, and a call with a new name
\* appends it at the end.
C19_BooksSetLike ==
    [][\A t \in DOMAIN tpc :
          (tpc[t] = "read" /\ tpc'[t] = "written") =>
              /\ NoDuplicates(Books1')
              /\ Contains(Books1, targs[t].book_filename) => Books1' = Books1
              /\ ~Contains(Books1, targs[t].book_filename)
                    => Books1' = Append(Books1, targs[t].book_filename)]_vars
\* two calls with one name and a call with another name have all returned
C19_Witness ==
    /\ AllReturned
    /\ \E t \in DOMAIN tpc, u \in DOMAIN tpc :
          t # u /\ targs[t].book_filename = targs[u].book_filename
    /\ Len(Books1) >= 2

-----------------------------------------------------------------------------
\* the step of update_manifest_image in generate_book's loop
UpdateStep == pc = "update" /\ todo # <<>> /\ todo' = Tail(todo)
VersionPath == get_version_path(version)

\* C20: update_manifest_image sets images[page] to the given file name and
\* prompt hash and changes nothing else: the other pages' entries, the books
\* list, the other fields of that manifest, and the manifests of all other
\* versions stay as they were.
C20_UpsertOneEntry ==
    [][UpdateStep =>
         /\ dirs' = dirs /\ DOMAIN manifests' = DOMAIN manifests
         /\ manifests'[VersionPath].images[Head(todo)]
              = [file |-> get_image_name(Head(todo), prompts[Head(todo)].prompt_hash),
                 prompt_hash |-> prompts[Head(todo)].prompt_hash]
         /\ DOMAIN manifests'[VersionPath].images
              = DOMAIN manifests[VersionPath].images \cup {Head(todo)}
         /\ \A q \in DOMAIN manifests[VersionPath].images \ {Head(todo)} :
              manifests'[VersionPath].images[q] = manifests[VersionPath].images[q]
         /\ manifests'[VersionPath].books = manifests[VersionPath].books
         /\ manifests'[VersionPath].version = manifests[VersionPath].version
         /\ manifests'[VersionPath].created = manifests[VersionPath].created
         /\ manifests'[VersionPath].commit = manifests[VersionPath].commit
         /\ manifests'[VersionPath].message = manifests[VersionPath].message
         /\ manifests'[VersionPath].style = manifests[VersionPath].style
         /\ \A d \in DOMAIN manifests \ {VersionPath} : manifests'[d] = manifests[d]]_vars
\* an entry has been written into a manifest that holds another page's entry,
\* while another version has a manifest of its own
C20_Witness ==
    /\ pc = "update"
    /\ Len(todo) < Cardinality(generated)
    /\ Cardinality(DOMAIN manifests) >= 2
    /\ Cardinality(DOMAIN manifests[VersionPath].images) >= 2

-----------------------------------------------------------------------------
(* Prompt records: _save_prompts *)

\* get_prompt_path: out/images/{page_stem}-{prompt_hash}.txt
get_prompt_path(page_stem, prompt_hash) ==
    [stem |-> page_stem, hash |-> prompt_hash, ext |-> "txt"]

\* the prompt files a prompts dict asks for
PromptPaths(pr) == {get_prompt_path(p, pr[p].prompt_hash) : p \in DOMAIN pr}
PageOfPath(pr, k) == CHOOSE p \in DOMAIN pr : get_prompt_path(p, pr[p].prompt_hash) = k

save_promptsOverwrite(pr) ==
    [k \in DOMAIN ptxt \cup PromptPaths(pr) |->
        IF k \in PromptPaths(pr) THEN pr[PageOfPath(pr, k)].prompt ELSE ptxt[k]]
\* _save_prompts: out/images after the loop; a file that exists is left alone
save_prompts(pr) ==
    [k \in DOMAIN ptxt \cup PromptPaths(pr) |->
        IF k \in DOMAIN ptxt THEN ptxt[k] ELSE pr[PageOfPath(pr, k)].prompt]

\* prompt texts and seeds of the runs: "x" with seed 1 and "x|seed=1" with no
\* seed have the same canonical content, hence the same prompt_hash
SavePromptResults ==
    {[prompt |-> sX, ref_images |-> <<>>],
     [prompt |-> sX \o sSeed \o IntStr(1), ref_images |-> <<>>]}
SaveSeeds == {None, Some(1)}

InitPrompts ==
    /\ FsIdle /\ RunIdle /\ ThrIdle /\ RetIdle /\ HashIdle /\ GenIdle

\* one generate_book reaches _save_prompts with the prompts built by main
SavePrompts ==
    /\ runs < MaxSaves
    /\ runs' = runs + 1
    /\ \E P \in (SUBSET Pages) \ {{}}, seed \in SaveSeeds :
        \E built \in [P -> SavePromptResults] :
            /\ prompts' = build_all_prompts(built, seed)
            /\ ptxt' = save_prompts(build_all_prompts(built, seed))
    /\ UNCHANGED <<fsVars, pdfs, pc, message, style_id, version, generated, todo,
                   thrVars, ret, hashVars,
                   pool, gpc, gworkers, gsem, gprompts, gtask, gbytes, gresult, gruns>>

NextPrompts == SavePrompts
SpecPrompts == InitPrompts /\ [][NextPrompts]_vars

\* C21: prompt records are write-once: a prompt file keeps the text the
\* first call wrote, whatever later _save_prompts calls are given for its key.
C21_PromptWriteOnce ==
    [][\A k \in DOMAIN ptxt : k \in DOMAIN ptxt' /\ ptxt'[k] = ptxt[k]]_vars
\* a call came with another text for a key whose file already existed
C21_Witness ==
    \E p \in DOMAIN prompts :
        /\ get_prompt_path(p, prompts[p].prompt_hash) \in DOMAIN ptxt
        /\ ptxt[get_prompt_path(p, prompts[p].prompt_hash)] # prompts[p].prompt

-----------------------------------------------------------------------------
\* C22: get_git_commit never raises, whatever the git invocation does, so
\* every create_new_version call returns a number and writes its manifest.
C22_GitNeverRaises ==
    [][Len(ret') = Len(ret) + 1
         => /\ ret'[Len(ret')] # None
            /\ get_version_path(ret'[Len(ret')][1]) \in DOMAIN manifests'
            /\ manifests'[get_version_path(ret'[Len(ret')][1])].commit
                 \in {"abc1234", "unknown"}]_vars

-----------------------------------------------------------------------------
\* the manifest of the run's version records page p with the run's hash
Recorded(p) ==
    /\ VersionPath \in DOMAIN manifests
    /\ p \in DOMAIN manifests[VersionPath].images
    /\ manifests[VersionPath].images[p].prompt_hash = prompts[p].prompt_hash

\* C23: at any point of a run, every page whose generation has already
\* completed successfully has its entry in the manifest.
C23_RecordedOnCompletion ==
    pc \in {"update", "killed", "done"} => \A p \in generated : Recorded(p)

-----------------------------------------------------------------------------
\* the image entry of page p in the manifest of folder d is new or changed
EntryWritten(d, p) ==
    /\ p \in DOMAIN manifests'[d].images
    /\ \/ d \notin DOMAIN manifests
       \/ p \notin DOMAIN manifests[d].images
       \/ manifests'[d].images[p] # manifests[d].images[p]

\* a step writes entries only for succeeded pages of the run's version, and
\* at the end of generate_book every succeeded page is recorded
OnlySucceededWritten ==
    /\ \A d \in DOMAIN manifests' : \A p \in Pages :
          EntryWritten(d, p) => (d = VersionPath /\ p \in generated)
    /\ (pc' = "done") => (\A p \in generated : Recorded(p)')

\* C24: generate_book writes image entries only for the pages whose
\* generation succeeded, into the run's version, and when it ends each of
\* them is recorded; a failed page gets no entry.
C24_FailedNotRecorded ==
    [][(pc \in {"generate", "update"}) => OnlySucceededWritten]_vars
\* a run has ended in which one page succeeded and was recorded and another
\* page failed and has no entry
C24_Witness ==
    /\ pc = "done"
    /\ \E p \in generated : Recorded(p)
    /\ \E p \in DOMAIN prompts \ generated :
          p \notin DOMAIN manifests[VersionPath].images

-----------------------------------------------------------------------------
\* C25: a command given an unknown style ends with an error before any work:
\* it never gets to the version check or to generate_book, and no version
\* folder, manifest or PDF is created or changed.
C25_UnknownStyleFailsFast ==
    [][(style_id' \notin Styles) => (pc' = "raised" /\ UNCHANGED <<fsVars, pdfs>>)]_vars
\* a command with an unknown style has ended while a version exists
C25_Witness ==
    /\ style_id \notin Styles
    /\ pc = "raised"
    /\ DOMAIN manifests # {}
    /\ ~NotMessage(message)

-----------------------------------------------------------------------------
(* _generate_images_parallel under the scheduling of the asyncio event loop:
   a task that can run is run, the semaphore wakes its waiters in turn, and
   every external call returns or raises in the end *)

GenPages == {GenPageOrder[i] : i \in 1..Len(GenPageOrder)}

GenFairness ==
    /\ \A t \in GenPages :
        /\ SF_vars(t \in DOMAIN gtask /\ TaskEnter(t))
        /\ WF_vars(t \in DOMAIN gtask /\ CachedReturns(t))
        /\ WF_vars(t \in DOMAIN gtask /\ (CallReturns(t) \/ CallRaises(t)))
    /\ WF_vars(Gather)
SpecGenFair == SpecGen /\ GenFairness

\* C26: for every workers value the option accepts, a running
\* _generate_images_parallel returns in the end.
C26_Terminates == (gpc = "running") ~> (gpc = "returned")

-----------------------------------------------------------------------------
\* C27: every file name in a manifest's books list names a PDF that was
\* written into that version's folder.
C27_BooksWereRendered ==
    \A d \in DOMAIN manifests :
        \A i \in 1..Len(manifests[d].books) : <<d, manifests[d].books[i]>> \in pdfs

-----------------------------------------------------------------------------
(* gen_book commands in a repository that already has 99 versions *)

InitRerun ==
    /\ dirs = {get_version_path(v) : v \in 1..99}
    /\ manifests = [d \in {get_version_path(v) : v \in 1..99} |->
                       NewManifest(int(d), "abc1234", "Initial version",
                                   "genealogy_witch")]
    /\ unreadable = {}
    /\ pdfs = {}
    /\ RunIdle /\ ThrIdle /\ RetIdle /\ HashIdle /\ GenIdle
SpecRerun == InitRerun /\ [][Next]_vars

\* the run has ended with every page generated and recorded
FullySuccessful ==
    /\ pc = "done"
    /\ generated = DOMAIN prompts
    /\ \A p \in DOMAIN prompts : Recorded(p)

\* C28: after a fully successful run recorded in version v, the same
\* command without a message resolves to v, creates nothing, and its
\* manifest updates leave the image entries and the books list as they are.
C28_Fixpoint ==
    FullySuccessful =>
        /\ check_version_branch(get_hashes_from_prompts(prompts), NoMessage) = "reuse"
        /\ get_latest_version = version
        /\ \A p \in DOMAIN prompts :
              UpsertImage(manifests[VersionPath], p,
                          get_image_name(p, prompts[p].prompt_hash),
                          prompts[p].prompt_hash) = manifests[VersionPath]
        /\ AppendBook(manifests[VersionPath], "cullan-book.pdf") = manifests[VersionPath]

-----------------------------------------------------------------------------
(* update_manifest_image and update_manifest_book called from the threads of
   one process on version 1, which has a manifest, and on version 2, which
   has neither folder nor manifest *)

LockedCall(op, v, page_stem) ==
    [op |-> op, version |-> v, page_stem |-> page_stem,
     filename |-> get_image_name(page_stem, sha256hex5(sX)),
     prompt_hash |-> sha256hex5(sX), book_filename |-> "cullan-book.pdf"]

InitLocked ==
    /\ dirs = {get_version_path(1)}
    /\ manifests = [d \in {get_version_path(1)} |->
                       NewManifest(1, "abc1234", "Initial version", "genealogy_witch")]
    /\ unreadable = {}
    /\ pdfs = {}
    /\ lock = 0
    /\ \E n \in 2..Min(MaxThreads, Len(UpsertPageOrder)) :
        /\ tpc = [t \in 1..n |-> "call"]
        /\ tlocal = [t \in 1..n |-> None]
        /\ \E o \in [1..n -> LockedOps], v \in [1..n -> {1, 2}] :
             targs = [t \in 1..n |-> LockedCall(o[t], v[t], UpsertPageOrder[t])]
    /\ RunIdle /\ RetIdle /\ HashIdle /\ GenIdle

NextLocked ==
    \/ \E t \in DOMAIN tpc : Acquire(t)
    \/ \E t \in DOMAIN tpc : Read(t)
    \/ \E t \in DOMAIN tpc : targs[t].op = "update_manifest_image" /\ Write(t)
    \/ \E t \in DOMAIN tpc : targs[t].op = "update_manifest_book" /\ BookWrite(t)
    \/ \E t \in DOMAIN tpc : Release(t)
SpecLocked == InitLocked /\ [][NextLocked]_vars

\* C29: an update on a version without manifest ends with an error, creates
\* no folder and no manifest, and does not keep _manifest_lock: the lock is
\* only ever held by a thread that is inside its with-block.
C29_ErrorReleasesLock ==
    /\ dirs = {get_version_path(1)}
    /\ DOMAIN manifests = {get_version_path(1)}
    /\ \A t \in DOMAIN tpc :
          /\ targs[t].version = 2 => tpc[t] \in {"call", "locked", "raised"}
          /\ tpc[t] = "raised" => lock # t
    /\ lock # 0 => tpc[lock] \in {"locked", "read", "written"}
\* after one thread's update failed, another thread has taken the lock
C29_Witness ==
    \E t \in DOMAIN tpc, u \in DOMAIN tpc :
        /\ tpc[t] = "raised"
        /\ lock = u /\ tpc[u] = "read" /\ targs[u].version = 1

====
